---- MODULE Spec2Model ----
(***************************************************************************)
(* The Cynix API request path: the RateLimiter middleware                  *)
(* (src/api/middleware.py), the credential dependency verify_api_key, the  *)
(* routes of src/api/routes.py, the data access service                    *)
(* (src/services/data_access.py), the access evaluation of                 *)
(* src/blockchain/token.py, the account history of                         *)
(* src/blockchain/solana.py and the agents' envelope of                    *)
(* src/agents/base.py, over a Redis store shared by concurrently running   *)
(* request handlers.                                                       *)
(*                                                                         *)
(* One step of a handler is the code between two awaits that touch the     *)
(* shared store; the clock read of line 29 and the INCR of line 33 are     *)
(* taken at the same instant.                                              *)
(***************************************************************************)
EXTENDS Integers, Sequences, FiniteSets, TLC

VARIABLES
  now,            \* wall clock, int(time.time())
  ratelimit,      \* Redis: "ratelimit:{client_id}:{window}" -> count, 0 = no such key
  expireAt,       \* Redis: expiry instant of each ratelimit key, NoTTL = none set
  request_logs,   \* Redis list "api:request_logs", newest first; its only writer,
                  \* RequestLogger.dispatch, is not among the middleware the app
                  \* registers (routes.py:12-22), so no step here writes it
  h,              \* the request handlers (one task per inbound request)
  arrivals,       \* history: requests of a client that arrived in a window
  forwarded,      \* history: requests of a key passed on to call_next
  returned,       \* history: the values INCR returned for a key, in order
  tz,             \* the server's local UTC offset in seconds
  cred_tok,       \* verify_api_key alone: the token presented
  cred_res,       \* verify_api_key alone: its outcome
  chain,          \* check_access_level alone: what the ledger RPC answers
  access_info,    \* check_access_level alone: its result
  cache,          \* Redis: "cynix:raw:{data_type}[:{params}]" -> JSON text, expiry
  access_logs,    \* Redis list "cynix:access_logs", newest first
  d,              \* the get_data route handlers
  appended,       \* history: number of LPUSH on cynix:access_logs so far
  fetches,        \* history: fetcher invocations per data_type
  key_args,       \* _generate_cache_key alone: data_type and two params arguments
  cache_keys,     \* _generate_cache_key alone: the keys generated for them
  hist,           \* get_account_history: one call, its locals and its outcome
  stake,          \* _get_staking_info: the staking account's data and the answer
  hook,           \* webhook_handler: one request, its locals and its response
  analytics,      \* get_analytics_data: one call, its locals and its result
  agent           \* BaseAgent.process_data: one call and what it answers

gateVars == <<ratelimit, expireAt, request_logs, h, arrivals, forwarded, returned>>
credVars == <<tz, cred_tok, cred_res>>
accVars == <<chain, access_info>>
dataVars == <<cache, access_logs, d, appended, fetches>>
keyVars == <<key_args, cache_keys>>
unitVars == <<stake, hook, analytics, agent>>
vars == <<now, gateVars, credVars, accVars, dataVars, keyVars, hist, unitVars>>

----------------------------------------------------------------------------
(* Program constants *)
rate_limit == 100
window == 60

(* Bounds of the model *)
MaxHandlers == 2
TickStep == 30
MaxTime == 90
FarExp == 100000

NoTTL == -1
Procs == 1..MaxHandlers
ApiKeys == {"key_good", "key_tampered"}
Hosts == {"10.0.0.1"}
ClientIds == ApiKeys \cup Hosts
Paths == {"/", "/api/v1/analyze/code"}
WindowIdx == 0..(MaxTime \div window)
Keys == ClientIds \X WindowIdx
\* the counter values a window may already hold when the run starts
StartCounts == {0, rate_limit - 1, rate_limit}

Max(a, b) == IF a >= b THEN a ELSE b

----------------------------------------------------------------------------
(* Credentials: a JWT is its signature state and its claims *)
Token(api_key) ==
  IF api_key = "key_good"
    THEN [sig |-> "valid", exp |-> FarExp, wallet_address |-> "wallet_staked"]
    ELSE [sig |-> "tampered", exp |-> FarExp, wallet_address |-> "wallet_staked"]

\* jwt.decode(api_key, "", algorithms=["HS256"]): the signature is verified first,
\* then the exp claim (PyJWT raises ExpiredSignatureError when exp <= now).
JwtDecode(tok, t) ==
  IF tok.sig # "valid" THEN "InvalidSignatureError"
  ELSE IF tok.exp <= t THEN "ExpiredSignatureError"
  ELSE "payload"

NoToken == [sig |-> "none", exp |-> 0, wallet_address |-> "none"]
NotVerified == [status |-> 0, detail |-> "none", value |-> "none"]

\* PyJWT: InvalidSignatureError and ExpiredSignatureError derive from InvalidTokenError
InvalidTokenError == {"InvalidSignatureError", "ExpiredSignatureError", "DecodeError"}

\* verify_api_key: off is the server's local UTC offset, datetime.fromtimestamp
\* being local time and datetime.utcnow UTC.
verify_api_key(tok, t, off) ==
  LET decoded == JwtDecode(tok, t) IN
  IF decoded \in InvalidTokenError
    THEN [status |-> 401, detail |-> "Invalid API key", value |-> "none"]
  ELSE IF tok.exp + off < t
    THEN [status |-> 401, detail |-> "API key expired", value |-> "none"]
  ELSE [status |-> 200, detail |-> "ok", value |-> tok.wallet_address]

----------------------------------------------------------------------------
(* Redis primitives *)
\* a counter that is set on the first request and not counted up after it
RedisIncr_Stale(v) == Max(v, 1)

\* a counter that stops counting once the limit is exceeded
RedisIncr_Capped(v) == IF v > rate_limit THEN v ELSE v + 1

\* INCR key: atomic at the store, returns the value after the increment
RedisIncr(v) == v + 1

\* EXPIRE key ttl: a no-op on a key that does not exist
RedisExpire(exp, cnt, key, t, ttl) ==
  IF cnt[key] > 0 THEN [exp EXCEPT ![key] = t + ttl] ELSE exp

\* keys whose expiry instant has been reached are gone
Expired(exp, key, t) == exp[key] # NoTTL /\ exp[key] <= t

----------------------------------------------------------------------------
(* RateLimiter.dispatch *)
\* every request counted under its peer address, whatever key it carries
client_id_HostOnly(req) == req.host

client_id(req) == IF req.api_key = "none" THEN req.host ELSE req.api_key

\* a key without the window index
window_key_NoWindow(cid, current) == <<cid, 0>>

window_key(cid, current) == <<cid, current \div window>>

\* the limit itself already rejected
OverLimit_AtLimit(request_count) == request_count >= rate_limit

OverLimit(request_count) == request_count > rate_limit

NoHeaders == [present |-> FALSE, limit |-> 0, remaining |-> 0, reset |-> 0]

\* a reset instant counted from the request instead of from the window's start
RateLimitHeaders_Sliding(request_count, current) ==
  [present |-> TRUE,
   limit |-> rate_limit,
   remaining |-> Max(0, rate_limit - request_count),
   reset |-> current + window]

RateLimitHeaders(request_count, current) ==
  [present |-> TRUE,
   limit |-> rate_limit,
   remaining |-> Max(0, rate_limit - request_count),
   reset |-> (current \div window) * window + window]

Idle ==
  [pc |-> "idle", api_key |-> "none", host |-> "none", path |-> "none",
   current |-> 0, key |-> <<"none", 0>>, request_count |-> 0, nth |-> 0,
   called |-> FALSE, cred |-> "unverified", status |-> 0, headers |-> NoHeaders]

\* the response of call_next comes back to dispatch, which adds the headers
Respond(r, code) ==
  [r EXCEPT !.pc = "done", !.status = code,
            !.headers = RateLimitHeaders(r.request_count, r.current)]

\* call_next: the route's dependencies, then its handler up to its first await
Route(r) ==
  IF r.path = "/" THEN Respond(r, 200)
  ELSE IF r.api_key = "none" THEN Respond(r, 403)
  ELSE LET v == verify_api_key(Token(r.api_key), now, tz) IN
       IF v.status # 200
         THEN Respond([r EXCEPT !.cred = "rejected"], v.status)
         ELSE [r EXCEPT !.cred = "accepted", !.pc = "analyze"]

\* the request passed on whatever the count
CheckAndForward_NoCheck(r) == Route([r EXCEPT !.called = TRUE])

\* lines 39-46: raise HTTPException(429), or call_next
CheckAndForward(r) ==
  IF OverLimit(r.request_count)
    THEN [r EXCEPT !.pc = "done", !.status = 429]
    ELSE Route([r EXCEPT !.called = TRUE])

\* lines 26-33 (and 39-55 when this is not the first request of the window)
Incr(p, req) ==
  LET cid == client_id(req)
      key == window_key(cid, now)
      cnt == RedisIncr(ratelimit[key])
      r0  == [Idle EXCEPT !.api_key = req.api_key, !.host = req.host,
                          !.path = req.path, !.current = now, !.key = key,
                          !.request_count = cnt,
                          !.nth = arrivals[<<cid, now \div window>>] + 1]
  IN
  /\ h[p].pc = "idle"
  /\ \A q \in Procs : q < p => h[q].pc # "idle"
  /\ ratelimit' = [ratelimit EXCEPT ![key] = cnt]
  /\ arrivals' = [arrivals EXCEPT ![<<cid, now \div window>>] = @ + 1]
  /\ returned' = [returned EXCEPT ![key] = Append(@, cnt)]
  /\ IF cnt = 1
       THEN /\ h' = [h EXCEPT ![p] = [r0 EXCEPT !.pc = "expire"]]
            /\ UNCHANGED forwarded
       ELSE /\ h' = [h EXCEPT ![p] = CheckAndForward(r0)]
            /\ forwarded' = [forwarded EXCEPT ![key] =
                               IF CheckAndForward(r0).called THEN @ + 1 ELSE @]
  /\ UNCHANGED <<now, credVars, accVars, unitVars, keyVars, hist, dataVars, expireAt, request_logs>>

\* lines 36-37 (and 39-55)
Expire(p) ==
  /\ h[p].pc = "expire"
  /\ expireAt' = RedisExpire(expireAt, ratelimit, h[p].key, now, window)
  /\ h' = [h EXCEPT ![p] = CheckAndForward(h[p])]
  /\ forwarded' = [forwarded EXCEPT ![h[p].key] =
                     IF CheckAndForward(h[p]).called THEN @ + 1 ELSE @]
  /\ UNCHANGED <<now, credVars, accVars, unitVars, keyVars, hist, dataVars, ratelimit, request_logs, arrivals, returned>>

\* line 37 does not complete: the EXPIRE call raises (connection lost, timeout)
\* or the task is cancelled while it waits; dispatch is left by the exception
\* and the key keeps the value INCR gave it
ExpireFails(p) ==
  /\ h[p].pc = "expire"
  /\ h' = [h EXCEPT ![p] = [h[p] EXCEPT !.pc = "done", !.status = 500]]
  /\ UNCHANGED <<now, credVars, accVars, unitVars, keyVars, hist, dataVars, ratelimit, expireAt,
                 request_logs, arrivals, forwarded, returned>>

\* analyze_code: the agent's work ends with a result, or with an exception that
\* the route turns into a 500
Analyze(p, ok) ==
  /\ h[p].pc = "analyze"
  /\ h' = [h EXCEPT ![p] = Respond(h[p], IF ok THEN 200 ELSE 500)]
  /\ UNCHANGED <<now, credVars, accVars, unitVars, keyVars, hist, dataVars, ratelimit, expireAt,
                 request_logs, arrivals, forwarded, returned>>

\* time passes; Redis drops the keys whose expiry has been reached
Tick ==
  /\ now + TickStep <= MaxTime
  /\ now' = now + TickStep
  /\ ratelimit' = [k \in Keys |->
                     IF Expired(expireAt, k, now') THEN 0 ELSE ratelimit[k]]
  /\ expireAt' = [k \in Keys |->
                     IF Expired(expireAt, k, now') THEN NoTTL ELSE expireAt[k]]
  /\ UNCHANGED <<credVars, accVars, unitVars, keyVars, hist, dataVars, request_logs, h, arrivals,
                 forwarded, returned>>

----------------------------------------------------------------------------
(* CynixToken.check_access_level *)
MaxAccounts == 2
NoStake == -1
Balances == {0, 999, 1000, 9999, 10000, 49999, 50000}
Stakes == {NoStake, 0, 1, 4999, 5000}
RpcModes == {"ok", "accounts_fail", "staking_fail", "bad_address"}

RECURSIVE SumSeq(_)
SumSeq(s) == IF s = <<>> THEN 0 ELSE Head(s) + SumSeq(Tail(s))

\* alpha_access granted only above its threshold
access_levels_Strict(total_tokens, staked_amount) ==
  [alpha_access |-> total_tokens > 1000,
   raw_data_access |-> staked_amount >= 5000,
   api_access |-> total_tokens >= 10000,
   governance_access |-> total_tokens >= 50000]

\* each total-based tier granted only up to the threshold of the next one
access_levels_Exclusive(total_tokens, staked_amount) ==
  [alpha_access |-> total_tokens >= 1000 /\ total_tokens < 10000,
   raw_data_access |-> staked_amount >= 5000,
   api_access |-> total_tokens >= 10000 /\ total_tokens < 50000,
   governance_access |-> total_tokens >= 50000]

\* raw_data_access granted on the total instead of on the stake
access_levels_RawOnTotal(total_tokens, staked_amount) ==
  [alpha_access |-> total_tokens >= 1000,
   raw_data_access |-> total_tokens >= 5000,
   api_access |-> total_tokens >= 10000,
   governance_access |-> total_tokens >= 50000]

access_levels(total_tokens, staked_amount) ==
  [alpha_access |-> total_tokens >= 1000,
   raw_data_access |-> staked_amount >= 5000,
   api_access |-> total_tokens >= 10000,
   governance_access |-> total_tokens >= 50000]

NoLevels ==
  [alpha_access |-> FALSE, raw_data_access |-> FALSE,
   api_access |-> FALSE, governance_access |-> FALSE]

NoAccessInfo ==
  [returned |-> FALSE, error |-> FALSE, total_tokens |-> 0, staked_amount |-> 0,
   access_levels |-> NoLevels]

\* a staking query that answers the amount even when the RPC call raised
get_staking_info_IgnoresFailure(staking, rpc) == staking

\* _get_staking_info: None when the account is absent or the RPC call raises
get_staking_info(staking, rpc) ==
  IF rpc = "staking_fail" THEN NoStake ELSE staking

\* total_tokens without the staked amount
check_access_level_NoStakeInTotal(token_accounts, staking, rpc) ==
  IF rpc \in {"bad_address", "accounts_fail"}
    THEN [NoAccessInfo EXCEPT !.returned = TRUE, !.error = TRUE]
    ELSE LET total_balance == SumSeq(token_accounts)
             staking_info == get_staking_info(staking, rpc)
             staked_amount == IF staking_info # NoStake THEN staking_info ELSE 0
             total_tokens == total_balance
         IN [returned |-> TRUE, error |-> FALSE,
             total_tokens |-> total_tokens,
             staked_amount |-> staked_amount,
             access_levels |-> access_levels(total_tokens, staked_amount)]

\* token_accounts: the amounts of the wallet's token accounts for the mint;
\* staking: the amount in the staking account, NoStake when there is none
check_access_level(token_accounts, staking, rpc) ==
  IF rpc \in {"bad_address", "accounts_fail"}
    THEN [NoAccessInfo EXCEPT !.returned = TRUE, !.error = TRUE]
    ELSE LET total_balance == SumSeq(token_accounts)
             staking_info == get_staking_info(staking, rpc)
             staked_amount == IF staking_info # NoStake THEN staking_info ELSE 0
             total_tokens == total_balance + staked_amount
         IN [returned |-> TRUE, error |-> FALSE,
             total_tokens |-> total_tokens,
             staked_amount |-> staked_amount,
             access_levels |-> access_levels(total_tokens, staked_amount)]

NoChain == [token_accounts |-> <<>>, staking |-> NoStake, rpc |-> "ok"]

AccIdle ==
  /\ chain = NoChain
  /\ access_info = NoAccessInfo

----------------------------------------------------------------------------
(* DataAccessService.get_raw_data behind the get_data route *)
cache_ttl == 300
LogKeep == 9999

MaxDataHandlers == 2
DataTick == 150
MaxDataTime == 300

DProcs == 1..MaxDataHandlers
Wallets == {"wallet_staked", "wallet_poor"}
DataTypes == {"github", "weather"}
\* a table of fetchers that answers for every data type
data_fetchers_Open == {"github", "twitter", "blockchain", "weather"}
data_fetchers == {"github", "twitter", "blockchain"}

\* Python values: a str or an int, written by its text; a dict is the sequence
\* of its items in insertion order
PyStr(text) == [kind |-> "str", text |-> text]
PyInt(text) == [kind |-> "int", text |-> text]
Item(key, value) == [key |-> key, value |-> value]

\* the order of str keys that sorted() uses
KeyOrder == <<"a", "b", "forks", "stars">>
KeyRank(text) == CHOOSE i \in 1..Len(KeyOrder) : KeyOrder[i] = text

\* json.dumps of a dict: every key is written as a JSON string, a str value in
\* quotes and an int value bare; the members keep the dict's order
JsonMember(item) ==
  [key |-> item.key.text,
   value |-> [quoted |-> item.value.kind = "str", text |-> item.value.text]]

json_dumps(items) == [i \in 1..Len(items) |-> JsonMember(items[i])]

\* members without sorting, as json.dumps(params) would write them
SortMembers_Unsorted(members) == members

\* the members in ascending order of their keys (insertion sort)
RECURSIVE SortMembers(_)
SortMembers(members) ==
  IF members = <<>> THEN <<>>
  ELSE LET rest == SortMembers(Tail(members))
           m == Head(members)
           before == SelectSeq(rest, LAMBDA x : KeyRank(x.key) < KeyRank(m.key))
           after == SelectSeq(rest, LAMBDA x : KeyRank(x.key) >= KeyRank(m.key))
       IN before \o <<m>> \o after

\* json.dumps(params, sort_keys=True)
json_dumps_sorted(items) == SortMembers(json_dumps(items))

\* json.loads of a JSON object: keys come back as str, a quoted value as str,
\* a bare one as int
json_loads(members) ==
  [i \in 1..Len(members) |->
     Item(PyStr(members[i].key),
          IF members[i].value.quoted THEN PyStr(members[i].value.text)
                                     ELSE PyInt(members[i].value.text))]

\* the params argument: None, or a dict
NoParams == [given |-> FALSE, items |-> <<>>]
Dict(items) == [given |-> TRUE, items |-> items]
ParamsAB == Dict(<<Item(PyStr("a"), PyInt("1")), Item(PyStr("b"), PyInt("2"))>>)
ParamsBA == Dict(<<Item(PyStr("b"), PyInt("2")), Item(PyStr("a"), PyInt("1"))>>)
DataParams == {NoParams, ParamsAB, ParamsBA}

\* "if params:" is false for None and for the empty dict
Truthy(params) == params.given /\ params.items # <<>>

\* _generate_cache_key: cynix:raw:{data_type}:{param_str}, or cynix:raw:{data_type}
generate_cache_key(data_type, params) ==
  IF Truthy(params)
    THEN [data_type |-> data_type, param_str |-> json_dumps_sorted(params.items)]
    ELSE [data_type |-> data_type, param_str |-> <<>>]

CacheKeys == {generate_cache_key(t, ps) : t \in DataTypes, ps \in DataParams}

\* what a registered fetcher may answer (the fetchers themselves are not in
\* data_access.py; section 4.5: dispatch to the registered fetcher for
\* data_type; section 3: the value is a JSON-serializable payload)
Payloads ==
  {<<Item(PyStr("stars"), PyInt("42")), Item(PyStr("forks"), PyStr("7"))>>,
   <<Item(PyStr("stars"), PyInt("43"))>>}
NoPayload == <<>>
NoEntry == [present |-> FALSE, value |-> <<>>, expireAt |-> 0]

\* the ledger's state of the two wallets
Chain(wallet) ==
  IF wallet = "wallet_staked"
    THEN [token_accounts |-> <<12000>>, staking |-> 6000]
    ELSE [token_accounts |-> <<12000>>, staking |-> 200]

\* a GET that always misses
redis_get_Miss(store, key) == NoEntry

\* GET key: the entry, absent once its expiry has been reached
redis_get(store, key) == store[key]

Lpush(list, e) == <<e>> \o list

\* LTRIM key start stop, both inclusive and 0-based
Ltrim(list, start, stop) ==
  SubSeq(list, start + 1, IF stop + 1 <= Len(list) THEN stop + 1 ELSE Len(list))

ErrInsufficient == "Insufficient token stake for raw data access"
\* str(KeyError("access_levels")), from access_info["access_levels"] on {"error": ...}
ErrKeyError == "'access_levels'"
ErrUnsupported == "Unsupported data type"
ErrFetch == "fetcher raised"
ErrLpush == "Error connecting to redis"

NoKey == [data_type |-> "none", param_str |-> <<>>]

\* a handler of the route; cache_reads, fetched, cache_writes and pushed count
\* its store and fetcher operations, preceded holds the handlers that had
\* returned when it started, t_get and t_setex the instants of its GET and
\* SETEX, rpc how the ledger answered its access check
DIdle ==
  [pc |-> "idle", wallet_address |-> "none", data_type |-> "none",
   params |-> NoParams, access_info |-> NoAccessInfo, cache_key |-> NoKey,
   data |-> NoPayload, result |-> "none", payload |-> NoPayload,
   error |-> "none", status |-> 0,
   cache_reads |-> 0, fetched |-> 0, cache_writes |-> 0, pushed |-> 0,
   preceded |-> {}, t_get |-> 0, t_setex |-> 0, rpc |-> "none"]

\* get_raw_data returns {"error": err}: the route raises HTTPException(403)
\* inside its own try, whose except Exception turns it into a 500
ReturnError(r, err) ==
  [r EXCEPT !.pc = "done", !.result = "error", !.error = err, !.status = 500]

ReturnData(r, payload) ==
  [r EXCEPT !.pc = "done", !.result = "data", !.payload = payload, !.status = 200]

\* the route is entered: DataAccessService(...).get_raw_data(...) starts
DataStart(p, wallet, data_type, params) ==
  /\ d[p].pc = "idle"
  /\ \A q \in DProcs : q < p => d[q].pc # "idle"
  /\ d' = [d EXCEPT ![p] = [DIdle EXCEPT !.pc = "access",
                                        !.wallet_address = wallet,
                                        !.data_type = data_type,
                                        !.params = params,
                                        !.preceded = {q \in DProcs : d[q].pc = "done"}]]
  /\ UNCHANGED <<now, gateVars, credVars, accVars, unitVars, keyVars, hist, cache, access_logs, appended, fetches>>

\* lines 33-37: an {"error": ...} answer of check_access_level has no
\* "access_levels", so line 34 raises KeyError, which line 65 catches
DataAccess(p, rpc) ==
  LET c == Chain(d[p].wallet_address)
      info == check_access_level(c.token_accounts, c.staking, rpc)
  IN
  /\ d[p].pc = "access"
  /\ d' = [d EXCEPT ![p] =
             LET r == [@ EXCEPT !.access_info = info, !.rpc = rpc] IN
             IF info.error
               THEN ReturnError(r, ErrKeyError)
             ELSE IF ~info.access_levels.raw_data_access
               THEN ReturnError(r, ErrInsufficient)
               ELSE [r EXCEPT !.pc = "cache_get"]]
  /\ UNCHANGED <<now, gateVars, credVars, accVars, unitVars, keyVars, hist, cache, access_logs, appended, fetches>>

\* lines 40-44
DataCacheGet(p) ==
  LET cache_key == generate_cache_key(d[p].data_type, d[p].params)
      cached_data == redis_get(cache, cache_key)
      r == [d[p] EXCEPT !.cache_key = cache_key, !.cache_reads = @ + 1, !.t_get = now]
  IN
  /\ d[p].pc = "cache_get"
  /\ d' = [d EXCEPT ![p] =
             IF cached_data.present
               THEN ReturnData(r, json_loads(cached_data.value))
               ELSE [r EXCEPT !.pc = "fetch"]]
  /\ UNCHANGED <<now, gateVars, credVars, accVars, unitVars, keyVars, hist, cache, access_logs, appended, fetches>>

\* lines 47 and 105-120: the fetcher answers with a payload, or raises
DataFetch(p, ok, answer) ==
  /\ d[p].pc = "fetch"
  /\ IF d[p].data_type \notin data_fetchers
       THEN /\ d' = [d EXCEPT ![p] = ReturnError(@, ErrUnsupported)]
            /\ UNCHANGED fetches
       ELSE /\ fetches' = [fetches EXCEPT ![d[p].data_type] = @ + 1]
            /\ d' = [d EXCEPT ![p] =
                       IF ~ok
                         THEN ReturnError([@ EXCEPT !.fetched = @ + 1], ErrFetch)
                         ELSE [@ EXCEPT !.pc = "setex", !.data = answer,
                                        !.fetched = @ + 1]]
  /\ UNCHANGED <<now, gateVars, credVars, accVars, unitVars, keyVars, hist, cache, access_logs, appended>>

\* lines 50-54
DataSetex(p) ==
  /\ d[p].pc = "setex"
  /\ cache' = [cache EXCEPT ![d[p].cache_key] =
                 [present |-> TRUE, value |-> json_dumps(d[p].data),
                  expireAt |-> now + cache_ttl]]
  /\ d' = [d EXCEPT ![p].pc = "lpush", ![p].cache_writes = @ + 1, ![p].t_setex = now]
  /\ UNCHANGED <<now, gateVars, credVars, accVars, unitVars, keyVars, hist, access_logs, appended, fetches>>

\* lines 173-183
DataLpush(p) ==
  /\ d[p].pc = "lpush"
  /\ access_logs' = Lpush(access_logs,
                          [wallet_address |-> d[p].wallet_address,
                           data_type |-> d[p].data_type,
                           params |-> d[p].params,
                           serial |-> appended + 1])
  /\ appended' = appended + 1
  /\ d' = [d EXCEPT ![p].pc = "ltrim", ![p].pushed = @ + 1]
  /\ UNCHANGED <<now, gateVars, credVars, accVars, unitVars, keyVars, hist, cache, fetches>>

\* lines 180-183 when the LPUSH raises (connection lost, timeout): nothing is
\* appended and line 65 answers with the exception's text
DataLpushFails(p) ==
  /\ d[p].pc = "lpush"
  /\ d' = [d EXCEPT ![p] = ReturnError(@, ErrLpush)]
  /\ UNCHANGED <<now, gateVars, credVars, accVars, unitVars, keyVars, hist, cache, access_logs, appended, fetches>>

\* line 184, then line 63
DataLtrim(p) ==
  /\ d[p].pc = "ltrim"
  /\ access_logs' = Ltrim(access_logs, 0, LogKeep)
  /\ d' = [d EXCEPT ![p] = ReturnData(@, @.data)]
  /\ UNCHANGED <<now, gateVars, credVars, accVars, unitVars, keyVars, hist, cache, appended, fetches>>

\* time passes; Redis drops the cache entries whose expiry has been reached
DataTime ==
  /\ now + DataTick <= MaxDataTime
  /\ now' = now + DataTick
  /\ cache' = [k \in DOMAIN cache |->
                 IF cache[k].present /\ cache[k].expireAt <= now'
                   THEN NoEntry ELSE cache[k]]
  /\ UNCHANGED <<gateVars, credVars, accVars, unitVars, keyVars, hist, access_logs, d, appended, fetches>>

\* the data service's part of the store, the access log holding log
DataInit(log) ==
  /\ cache = [k \in CacheKeys |-> NoEntry]
  /\ access_logs = log
  /\ appended = Len(log)
  /\ d = [p \in DProcs |-> DIdle]
  /\ fetches = [t \in DataTypes |-> 0]

----------------------------------------------------------------------------
(* _generate_cache_key on its own *)
NoArgs == [data_type |-> "none", first |-> NoParams, second |-> NoParams]

KeyIdle ==
  /\ key_args = NoArgs
  /\ cache_keys = <<>>

\* the key is generated for each of the two params arguments
GenerateKeys ==
  /\ cache_keys = <<>>
  /\ cache_keys' = <<generate_cache_key(key_args.data_type, key_args.first),
                     generate_cache_key(key_args.data_type, key_args.second)>>
  /\ UNCHANGED <<now, gateVars, credVars, accVars, unitVars, dataVars, key_args, hist>>

----------------------------------------------------------------------------
(* SolanaClient.get_account_history *)
MaxSignatures == 3

\* what get_transaction may answer for a signature: a transaction that
\* _parse_transactions can read, no transaction (value None), or one that
\* lacks a field _parse_transactions reads
TxAnswers == {"parsed", "null", "malformed"}

NoHistResult == [error |-> "none", exists |-> FALSE, transaction_count |-> 0]

HistIdle ==
  hist = [pc |-> "idle", address_valid |-> TRUE, account_present |-> FALSE,
          signatures |-> 0, transactions |-> <<>>, failed |-> "none",
          outcome |-> "none", result |-> NoHistResult]

\* an except clause that keeps the count of the signatures already read
HistExcept_KeepsCount(r, step) ==
  [r EXCEPT !.pc = "done", !.failed = step, !.outcome = "returned",
            !.result = [error |-> step, exists |-> FALSE,
                        transaction_count |-> r.signatures]]

\* lines 52-57: whatever was raised inside the try is answered with the
\* error result; step names where it was raised
HistExcept(r, step) ==
  [r EXCEPT !.pc = "done", !.failed = step, !.outcome = "returned",
            !.result = [error |-> step, exists |-> FALSE, transaction_count |-> 0]]

\* line 22: PublicKey(address) raises on an address that is not a public key
HistPubkey ==
  /\ hist.pc = "pubkey"
  /\ hist' = IF hist.address_valid
               THEN [hist EXCEPT !.pc = "account_info"]
               ELSE HistExcept(hist, "address")
  /\ UNCHANGED <<now, gateVars, credVars, accVars, unitVars, dataVars, keyVars>>

\* line 25
HistAccountInfo(ok, present) ==
  /\ hist.pc = "account_info"
  /\ hist' = IF ok
               THEN [hist EXCEPT !.pc = "signatures", !.account_present = present]
               ELSE HistExcept(hist, "account_info")
  /\ UNCHANGED <<now, gateVars, credVars, accVars, unitVars, dataVars, keyVars>>

\* lines 28-31: n signatures are answered
HistSignatures(ok, n) ==
  /\ hist.pc = "signatures"
  /\ hist' = IF ok
               THEN [hist EXCEPT !.pc = "transactions", !.signatures = n]
               ELSE HistExcept(hist, "signatures")
  /\ UNCHANGED <<now, gateVars, credVars, accVars, unitVars, dataVars, keyVars>>

\* lines 33-39: one turn of the loop over signatures.value
HistTransaction(ok, tx) ==
  /\ hist.pc = "transactions"
  /\ Len(hist.transactions) < hist.signatures
  /\ hist' = IF ok
               THEN [hist EXCEPT !.transactions = Append(@, tx)]
               ELSE HistExcept(hist, "transaction")
  /\ UNCHANGED <<now, gateVars, credVars, accVars, unitVars, dataVars, keyVars>>

\* lines 41-51 with _parse_transactions (lines 90-119), which skips a missing
\* transaction and raises on one that lacks a field it reads
HistBuild ==
  /\ hist.pc = "transactions"
  /\ Len(hist.transactions) = hist.signatures
  /\ hist' = IF \E i \in 1..Len(hist.transactions) : hist.transactions[i] = "malformed"
               THEN HistExcept(hist, "parse")
               ELSE [hist EXCEPT !.pc = "done", !.outcome = "returned",
                                 !.result = [error |-> "none",
                                             exists |-> hist.account_present,
                                             transaction_count |-> hist.signatures]]
  /\ UNCHANGED <<now, gateVars, credVars, accVars, unitVars, dataVars, keyVars>>

----------------------------------------------------------------------------
(* CynixToken._get_staking_info and _parse_staking_data *)
\* data[start:stop] of Python: the slice is cut at the end of data
Slice(data, start, stop) ==
  IF start >= Len(data) THEN <<>>
  ELSE SubSeq(data, start + 1, IF stop <= Len(data) THEN stop ELSE Len(data))

\* int.from_bytes(bytes, "little"); 0 for no bytes
RECURSIVE from_bytes(_)
from_bytes(bytes) ==
  IF bytes = <<>> THEN 0 ELSE Head(bytes) + 256 * from_bytes(Tail(bytes))

NoStakeInfo ==
  [returned |-> FALSE, none |-> FALSE, amount |-> 0, start_time |-> 0, last_claim |-> 0]

\* lines 119-125
parse_staking_data(data) ==
  [returned |-> TRUE, none |-> FALSE,
   amount |-> from_bytes(Slice(data, 0, 8)),
   start_time |-> from_bytes(Slice(data, 8, 16)),
   last_claim |-> from_bytes(Slice(data, 16, 24))]

StakeIdle == stake = [data |-> <<>>, info |-> NoStakeInfo]

\* lines 95-106: the account was read; its data is parsed, None is answered
\* if parsing raises
GetStakingInfo ==
  /\ ~stake.info.returned
  /\ stake' = [stake EXCEPT !.info = parse_staking_data(stake.data)]
  /\ UNCHANGED <<now, gateVars, credVars, accVars, dataVars, keyVars, hist, hook, analytics, agent>>

----------------------------------------------------------------------------
(* webhook_handler and process_webhook, the credential accepted *)
\* values of the X-Cynix-Event header; "none" when the request has none
EventTypes == {"none", "", "new_alpha", "new_meme", "price_alert", "new_token"}
handlers == {"new_alpha", "new_meme", "price_alert"}
Bodies == {"json_object", "json_array", "not_json"}

NoHook ==
  [pc |-> "idle", api_key |-> "none", event_type |-> "none", body |-> "json_object",
   status |-> 0, detail |-> "none", invoked |-> "none"]

HookIdle == hook = NoHook

\* lines 165-168: whatever is raised inside the try, the HTTPException of
\* lines 151-154 included, is answered with a 500 carrying its text
HookExcept(r, detail) ==
  [r EXCEPT !.pc = "done", !.status = 500, !.detail = detail]

\* line 143: the dependency verify_api_key runs before the handler's body
HookVerify ==
  /\ hook.pc = "verify"
  /\ hook' = IF hook.api_key = "none"
               THEN [hook EXCEPT !.pc = "done", !.status = 403, !.detail = "Not authenticated"]
             ELSE LET v == verify_api_key(Token(hook.api_key), now, tz) IN
               IF v.status # 200
                 THEN [hook EXCEPT !.pc = "done", !.status = v.status, !.detail = v.detail]
                 ELSE [hook EXCEPT !.pc = "json"]
  /\ UNCHANGED <<now, gateVars, credVars, accVars, dataVars, keyVars, hist, stake, analytics, agent>>

\* line 147: request.json() raises on a body that is not JSON
HookJson ==
  /\ hook.pc = "json"
  /\ hook' = IF hook.body = "not_json"
               THEN HookExcept(hook, "JSONDecodeError")
               ELSE [hook EXCEPT !.pc = "event"]
  /\ UNCHANGED <<now, gateVars, credVars, accVars, dataVars, keyVars, hist, stake, analytics, agent>>

\* lines 148-154: a missing or empty header raises HTTPException(400)
HookEvent ==
  /\ hook.pc = "event"
  /\ hook' = IF hook.event_type \in {"none", ""}
               THEN HookExcept(hook, "Missing event type header")
               ELSE [hook EXCEPT !.pc = "process"]
  /\ UNCHANGED <<now, gateVars, credVars, accVars, dataVars, keyVars, hist, stake, analytics, agent>>

\* lines 157-163 and 171-186: the handler of the event type runs and returns
\* or raises; an event type without a handler raises ValueError
HookProcess(ok) ==
  /\ hook.pc = "process"
  /\ hook' = IF hook.event_type \notin handlers
               THEN HookExcept(hook, "Unsupported event type")
             ELSE IF ~ok
               THEN HookExcept([hook EXCEPT !.invoked = hook.event_type], "handler raised")
               ELSE [hook EXCEPT !.pc = "done", !.status = 200, !.detail = "processed",
                                 !.invoked = hook.event_type]
  /\ UNCHANGED <<now, gateVars, credVars, accVars, dataVars, keyVars, hist, stake, analytics, agent>>

----------------------------------------------------------------------------
(* DataAccessService.get_analytics_data and _aggregate_metric; time in hours *)
Hours(days) == 24 * days

\* lines 77-81; 0 for a timeframe that is not in the table
time_ranges(timeframe) ==
  IF timeframe = "24h" THEN Hours(1)
  ELSE IF timeframe = "7d" THEN Hours(7)
  ELSE IF timeframe = "30d" THEN Hours(30)
  ELSE 0

Timeframes == {"24h", "7d", "30d", "1h", "90d", ""}
Metrics == {"alpha_score", "volume"}

\* a width chosen with < where the code has <=
interval_for_Strict(time_diff) ==
  IF time_diff < Hours(1) THEN 1
  ELSE IF time_diff < Hours(7) THEN Hours(1)
  ELSE Hours(7)

\* lines 137-143: the width of a bucket for a span of time_diff
interval_for(time_diff) ==
  IF time_diff <= Hours(1) THEN 1
  ELSE IF time_diff <= Hours(7) THEN Hours(1)
  ELSE Hours(7)

NoAnalytics ==
  [pc |-> "idle", metric |-> "none", timeframe |-> "none", end_time |-> 0,
   start_time |-> 0, points |-> 0, points_read |-> FALSE, aggregated |-> FALSE,
   interval |-> 0, result |-> "none"]

AnalyticsIdle == analytics = NoAnalytics

\* lines 77-88: the timeframe is looked up, the range ends at utcnow()
AnalyticsRange(utcnow) ==
  /\ analytics.pc = "range"
  /\ analytics' =
       IF time_ranges(analytics.timeframe) = 0
         THEN [analytics EXCEPT !.pc = "done", !.result = "Invalid timeframe"]
         ELSE [analytics EXCEPT !.pc = "points", !.end_time = utcnow,
                 !.start_time = utcnow - time_ranges(analytics.timeframe)]
  /\ UNCHANGED <<now, gateVars, credVars, accVars, dataVars, keyVars, hist, stake, hook, agent>>

\* lines 130-134: the data points of the range are read, or reading raises
\* (lines 102-103)
AnalyticsPoints(ok, n) ==
  /\ analytics.pc = "points"
  /\ analytics' =
       IF ok THEN [analytics EXCEPT !.pc = "aggregate", !.points = n, !.points_read = TRUE]
             ELSE [analytics EXCEPT !.pc = "done", !.result = "error"]
  /\ UNCHANGED <<now, gateVars, credVars, accVars, dataVars, keyVars, hist, stake, hook, agent>>

\* lines 137-150 and 96-100: the width is chosen and the points are aggregated
AnalyticsAggregate ==
  /\ analytics.pc = "aggregate"
  /\ analytics' =
       [analytics EXCEPT !.pc = "done", !.aggregated = TRUE, !.result = "data",
          !.interval = interval_for(analytics.end_time - analytics.start_time)]
  /\ UNCHANGED <<now, gateVars, credVars, accVars, dataVars, keyVars, hist, stake, hook, agent>>

----------------------------------------------------------------------------
(* BaseAgent.process_data *)
AgentTypes == {"AuraAgent", "MycaAgent", "InfyAgent"}
AgentInputs == {"input_a", "input_b"}

\* how _process_internal ends: it returns a result, or raises; Exception is
\* the base class of the first three, CancelledError derives from
\* BaseException only
Results == {"result_a", "result_b"}
Exceptions == {"ValueError", "KeyError", "TimeoutError"}
BaseExceptions == {"CancelledError"}

\* what asyncio.get_event_loop().time() may answer
MaxLoopTime == 1
LoopTimes == 0..MaxLoopTime

Absent == "absent"
NoTimestamp == -1
NoEnvelope ==
  [status |-> Absent, agent_type |-> Absent, timestamp |-> NoTimestamp,
   data |-> Absent, error |-> Absent]

NoAgent ==
  [pc |-> "idle", agent_type |-> "none", data |-> "none", internal |-> "none",
   outcome |-> "none", envelope |-> NoEnvelope]

AgentIdle == agent = NoAgent

\* lines 37-43
format_response(agent_type, loop_time, result) ==
  [status |-> "success", agent_type |-> agent_type, timestamp |-> loop_time,
   data |-> result, error |-> Absent]

\* lines 45-51
format_error(agent_type, loop_time, error_message) ==
  [status |-> "error", agent_type |-> agent_type, timestamp |-> loop_time,
   data |-> Absent, error |-> error_message]

\* an except clause that catches BaseException
Caught_All(raised) == raised \in Exceptions \cup BaseExceptions

\* line 30: except Exception
Caught(raised) == raised \in Exceptions

\* line 28: _process_internal runs to its end
AgentInternal(how) ==
  /\ agent.pc = "internal"
  /\ agent' = [agent EXCEPT !.pc = "answer", !.internal = how]
  /\ UNCHANGED <<now, gateVars, credVars, accVars, dataVars, keyVars, hist, stake, hook, analytics>>

\* lines 29-32: the envelope is returned, or what was raised goes on to the caller
AgentAnswer(loop_time) ==
  /\ agent.pc = "answer"
  /\ agent' =
       IF agent.internal \in Results
         THEN [agent EXCEPT !.pc = "done", !.outcome = "returned",
                 !.envelope = format_response(agent.agent_type, loop_time, agent.internal)]
       ELSE IF Caught(agent.internal)
         THEN [agent EXCEPT !.pc = "done", !.outcome = "returned",
                 !.envelope = format_error(agent.agent_type, loop_time, agent.internal)]
         ELSE [agent EXCEPT !.pc = "done", !.outcome = "raised"]
  /\ UNCHANGED <<now, gateVars, credVars, accVars, dataVars, keyVars, hist, stake, hook, analytics>>

----------------------------------------------------------------------------
\* none of the functions checked on their own has been called
UnitIdle == StakeIdle /\ HookIdle /\ AnalyticsIdle /\ AgentIdle

----------------------------------------------------------------------------
Requests ==
  [api_key : ApiKeys \cup {"none"}, host : Hosts, path : Paths]

\* the store as earlier requests of "key_good" left it: c requests so far in the
\* window of instant t, the first of which set the key's expiry at t
GateInit(c, t) ==
  /\ now = t
  /\ ratelimit = [k \in Keys |-> IF k = window_key("key_good", t) THEN c ELSE 0]
  /\ expireAt = [k \in Keys |->
                   IF k = window_key("key_good", t) /\ c > 0 THEN t + window ELSE NoTTL]
  /\ arrivals = [k \in Keys |-> IF k = window_key("key_good", t) THEN c ELSE 0]
  /\ forwarded = [k \in Keys |-> IF k = window_key("key_good", t) THEN c ELSE 0]
  /\ returned = [k \in Keys |-> <<>>]
  /\ request_logs = <<>>
  /\ h = [p \in Procs |-> Idle]

CredIdle ==
  /\ tz = 0
  /\ cred_tok = NoToken
  /\ cred_res = NotVerified

Init ==
  /\ \E c \in StartCounts : GateInit(c, IF c = 0 THEN 0 ELSE TickStep)
  /\ CredIdle
  /\ AccIdle
  /\ KeyIdle
  /\ HistIdle
  /\ DataInit(<<>>)
  /\ UnitIdle

Next ==
  \/ \E p \in Procs, req \in Requests : Incr(p, req)
  \/ \E p \in Procs : Expire(p)
  \/ \E p \in Procs, ok \in BOOLEAN : Analyze(p, ok)
  \/ Tick

Spec == Init /\ [][Next]_vars

\* the same handlers when the store or the connection may fail at the EXPIRE call
NextFail ==
  \/ Next
  \/ \E p \in Procs : ExpireFails(p)

SpecFail == Init /\ [][NextFail]_vars

----------------------------------------------------------------------------
(* verify_api_key on its own, over tokens, instants and server time zones *)
CredExps == {0, 50, 99, 100, 101, 4000, FarExp}
CredTimes == {50, 100}
UtcOffsets == {0 - 18000, 0, 3600}
CredTokens == [sig : {"valid", "tampered"}, exp : CredExps, wallet_address : Wallets]

InitCred ==
  /\ \E t \in CredTimes : GateInit(0, t)
  /\ tz \in UtcOffsets
  /\ cred_tok \in CredTokens
  /\ cred_res = NotVerified
  /\ AccIdle
  /\ KeyIdle
  /\ HistIdle
  /\ DataInit(<<>>)
  /\ UnitIdle

\* the dependency runs once on the token presented
Verify ==
  /\ cred_res = NotVerified
  /\ cred_res' = verify_api_key(cred_tok, now, tz)
  /\ UNCHANGED <<now, tz, gateVars, cred_tok, accVars, unitVars, keyVars, hist, dataVars>>

NextCred == Verify

SpecCred == InitCred /\ [][NextCred]_vars

----------------------------------------------------------------------------
(* check_access_level on its own, over ledger answers *)
RECURSIVE SeqsUpTo(_, _)
SeqsUpTo(S, n) ==
  IF n = 0 THEN {<<>>}
  ELSE SeqsUpTo(S, n - 1) \cup
       {Append(s, x) : s \in {t \in SeqsUpTo(S, n - 1) : Len(t) = n - 1}, x \in S}

InitAccess ==
  /\ GateInit(0, 0)
  /\ CredIdle
  /\ KeyIdle
  /\ HistIdle
  /\ DataInit(<<>>)
  /\ UnitIdle
  /\ chain \in [token_accounts : SeqsUpTo(Balances, MaxAccounts),
                staking : Stakes, rpc : RpcModes]
  /\ access_info = NoAccessInfo

CheckAccess ==
  /\ ~access_info.returned
  /\ access_info' = check_access_level(chain.token_accounts, chain.staking, chain.rpc)
  /\ UNCHANGED <<now, gateVars, credVars, unitVars, dataVars, keyVars, hist, chain>>

NextAccess == CheckAccess

SpecAccess == InitAccess /\ [][NextAccess]_vars

----------------------------------------------------------------------------
(* the get_data route over the shared store *)
\* the handlers' steps, the route called with wallets ws, data types ts and
\* params pss
DataNext(ws, ts, pss) ==
  \/ \E p \in DProcs, w \in ws, t \in ts, ps \in pss : DataStart(p, w, t, ps)
  \/ \E p \in DProcs, rpc \in RpcModes : DataAccess(p, rpc)
  \/ \E p \in DProcs : DataCacheGet(p)
  \/ \E p \in DProcs, ok \in BOOLEAN, a \in Payloads : DataFetch(p, ok, a)
  \/ \E p \in DProcs : DataSetex(p)
  \/ \E p \in DProcs : DataLpush(p)
  \/ \E p \in DProcs : DataLtrim(p)
  \/ DataTime

NextData == DataNext(Wallets, DataTypes, DataParams)

InitData ==
  /\ GateInit(0, 0)
  /\ CredIdle
  /\ AccIdle
  /\ KeyIdle
  /\ HistIdle
  /\ DataInit(<<>>)
  /\ UnitIdle

SpecData == InitData /\ [][NextData]_vars

\* the same calls when the store may fail at the LPUSH of the access log
NextDataFail ==
  \/ NextData
  \/ \E p \in DProcs : DataLpushFails(p)

SpecDataFail == InitData /\ [][NextDataFail]_vars

\* the access log as LogKeep + 1 earlier accesses left it
FullLog ==
  [i \in 1..(LogKeep + 1) |->
     [wallet_address |-> "wallet_staked", data_type |-> "github",
      params |-> NoParams, serial |-> LogKeep + 2 - i]]

InitLog ==
  /\ GateInit(0, 0)
  /\ CredIdle
  /\ AccIdle
  /\ KeyIdle
  /\ HistIdle
  /\ DataInit(FullLog)
  /\ UnitIdle

NextLog == DataNext({"wallet_staked"}, {"github"}, {NoParams})

SpecLog == InitLog /\ [][NextLog]_vars

----------------------------------------------------------------------------
(* _generate_cache_key over params dicts in every order of their keys *)
MaxParamKeys == 2

ParamNames == {KeyOrder[i] : i \in 1..MaxParamKeys}
ParamItems == {Item(PyStr(k), PyInt(v)) : k \in ParamNames, v \in {"1", "2"}}

\* a dict holds each key once
DistinctKeys(items) ==
  \A i, j \in 1..Len(items) : items[i].key = items[j].key => i = j

KeyParams ==
  {NoParams} \cup {Dict(items) : items \in {s \in SeqsUpTo(ParamItems, MaxParamKeys) :
                                             DistinctKeys(s)}}

InitKey ==
  /\ GateInit(0, 0)
  /\ CredIdle
  /\ AccIdle
  /\ DataInit(<<>>)
  /\ UnitIdle
  /\ key_args \in [data_type : DataTypes, first : KeyParams, second : KeyParams]
  /\ cache_keys = <<>>
  /\ HistIdle

NextKey == GenerateKeys

SpecKey == InitKey /\ [][NextKey]_vars

----------------------------------------------------------------------------
(* get_account_history over addresses and ledger answers *)
InitHist ==
  /\ GateInit(0, 0)
  /\ CredIdle
  /\ AccIdle
  /\ KeyIdle
  /\ DataInit(<<>>)
  /\ UnitIdle
  /\ \E valid \in BOOLEAN :
       hist = [pc |-> "pubkey", address_valid |-> valid, account_present |-> FALSE,
               signatures |-> 0, transactions |-> <<>>, failed |-> "none",
               outcome |-> "none", result |-> NoHistResult]

NextHist ==
  \/ HistPubkey
  \/ \E ok, present \in BOOLEAN : HistAccountInfo(ok, present)
  \/ \E ok \in BOOLEAN, n \in 0..MaxSignatures : HistSignatures(ok, n)
  \/ \E ok \in BOOLEAN, tx \in TxAnswers : HistTransaction(ok, tx)
  \/ HistBuild

SpecHist == InitHist /\ [][NextHist]_vars

----------------------------------------------------------------------------
(* _get_staking_info over staking account data of every length *)
MaxDataLen == 32

\* eight bytes holding 0, 5000, 6000 and 65793 in little-endian order
Fields ==
  {<<0, 0, 0, 0, 0, 0, 0, 0>>, <<136, 19, 0, 0, 0, 0, 0, 0>>,
   <<112, 23, 0, 0, 0, 0, 0, 0>>, <<1, 1, 1, 0, 0, 0, 0, 0>>}

StakeData ==
  {Slice(a \o b \o c \o a, 0, n) : a \in Fields, b \in Fields, c \in Fields,
                                   n \in 0..MaxDataLen}

InitStake ==
  /\ GateInit(0, 0)
  /\ CredIdle
  /\ AccIdle
  /\ KeyIdle
  /\ HistIdle
  /\ DataInit(<<>>)
  /\ \E data \in StakeData : stake = [data |-> data, info |-> NoStakeInfo]
  /\ HookIdle
  /\ AnalyticsIdle
  /\ AgentIdle

NextStake == GetStakingInfo

SpecStake == InitStake /\ [][NextStake]_vars

----------------------------------------------------------------------------
(* webhook_handler over event headers and bodies *)
InitHook ==
  /\ GateInit(0, 0)
  /\ CredIdle
  /\ AccIdle
  /\ KeyIdle
  /\ HistIdle
  /\ DataInit(<<>>)
  /\ StakeIdle
  /\ AnalyticsIdle
  /\ AgentIdle
  /\ \E k \in ApiKeys \cup {"none"}, e \in EventTypes, b \in Bodies :
       hook = [NoHook EXCEPT !.pc = "verify", !.api_key = k, !.event_type = e,
                             !.body = b]

NextHook ==
  \/ HookVerify
  \/ HookJson
  \/ HookEvent
  \/ \E ok \in BOOLEAN : HookProcess(ok)

SpecHook == InitHook /\ [][NextHook]_vars

----------------------------------------------------------------------------
(* get_analytics_data over metrics, timeframes and instants *)
MaxPoints == 2
MaxHour == 1

InitAnalytics ==
  /\ GateInit(0, 0)
  /\ CredIdle
  /\ AccIdle
  /\ KeyIdle
  /\ HistIdle
  /\ DataInit(<<>>)
  /\ StakeIdle
  /\ HookIdle
  /\ AgentIdle
  /\ \E m \in Metrics, tf \in Timeframes :
       analytics = [NoAnalytics EXCEPT !.pc = "range", !.metric = m, !.timeframe = tf]

NextAnalytics ==
  \/ \E utcnow \in 0..MaxHour : AnalyticsRange(utcnow)
  \/ \E ok \in BOOLEAN, n \in 0..MaxPoints : AnalyticsPoints(ok, n)
  \/ AnalyticsAggregate

SpecAnalytics == InitAnalytics /\ [][NextAnalytics]_vars

----------------------------------------------------------------------------
(* process_data over agents, inputs and ends of _process_internal *)
InitAgent ==
  /\ GateInit(0, 0)
  /\ CredIdle
  /\ AccIdle
  /\ KeyIdle
  /\ HistIdle
  /\ DataInit(<<>>)
  /\ StakeIdle
  /\ HookIdle
  /\ AnalyticsIdle
  /\ \E t \in AgentTypes, i \in AgentInputs :
       agent = [NoAgent EXCEPT !.pc = "internal", !.agent_type = t, !.data = i]

NextAgent ==
  \/ \E how \in Results \cup Exceptions \cup BaseExceptions : AgentInternal(how)
  \/ \E loop_time \in LoopTimes : AgentAnswer(loop_time)

SpecAgent == InitAgent /\ [][NextAgent]_vars

----------------------------------------------------------------------------
(* The rate limiter's claims *)
Decided(p) == h[p].pc \notin {"idle", "expire"}

Min(a, b) == IF a <= b THEN a ELSE b

\* C1: dispatch passes a request on to call_next if and only if the count its own
\* INCR returned is at most the limit, and raises 429 otherwise; no key ever has
\* more than rate_limit requests passed on, and the request that is number
\* rate_limit + 1 of its client in its window is rejected with 429.
C1_ForwardedIffWithinLimit ==
  /\ \A p \in Procs : Decided(p) =>
       /\ h[p].called <=> h[p].request_count <= rate_limit
       /\ h[p].status = 429 <=> h[p].request_count > rate_limit
  /\ \A k \in Keys : forwarded[k] <= rate_limit
  /\ \A p \in Procs : Decided(p) /\ h[p].nth = rate_limit + 1 =>
       h[p].status = 429 /\ ~h[p].called

C1_Witness ==
  \E p \in Procs :
    /\ h[p].nth = rate_limit + 1
    /\ h[p].status = 429
    /\ forwarded[h[p].key] = rate_limit

\* C2: whatever the interleaving of the handlers' store operations, the values
\* INCR returned for a key are consecutive, each one more than the one before
\* (1..N from an empty window), and once every handler of the key has decided,
\* the number passed on is min(number of requests, rate_limit).
C2_NoLostUpdate ==
  \A k \in Keys :
    LET n == Len(returned[k]) IN
    /\ \A i \in 1..n : returned[k][i] = arrivals[k] - n + i
    /\ (\A p \in Procs : h[p].key = k => h[p].pc # "expire") =>
         forwarded[k] = Min(arrivals[k], rate_limit)

C2_Witness ==
  \E p, q \in Procs :
    /\ p # q
    /\ h[p].key = h[q].key
    /\ h[p].pc = "expire"
    /\ h[p].request_count = 1
    /\ h[q].request_count = 2
    /\ h[q].called

\* every request ranked above the limit is rejected, counted as its rank
C3_Rejected ==
  \A p \in Procs : h[p].pc # "idle" /\ h[p].nth > rate_limit =>
    /\ h[p].status = 429
    /\ ~h[p].called
    /\ h[p].request_count = h[p].nth
    /\ (now \div window = h[p].key[2] => ratelimit[h[p].key] >= h[p].request_count)

\* while the clock stays in a window, the counter of that window does not decrease
C3_Monotone ==
  \A k \in Keys :
    (now \div window = k[2] /\ now' \div window = k[2]) => ratelimit'[k] >= ratelimit[k]

\* C3: a request beyond the limit is rejected and is counted all the same: its
\* count is its rank among the client's requests of the window, every request
\* ranked above the limit is rejected, and while the clock stays in a window
\* the counter of that window never decreases.
C3_RejectedStillCounts == [](C3_Rejected) /\ [][C3_Monotone]_vars

C3_Witness ==
  \E p \in Procs :
    /\ h[p].nth = rate_limit + 2
    /\ h[p].status = 429
    /\ ratelimit[h[p].key] = rate_limit + 2

\* C4: the counter a request uses is the one keyed by its client and
\* floor(current / window); a client's first request of a window gets the count
\* 1 and is passed on, whatever the counters of other windows hold.
C4_FreshWindowAdmits ==
  \A p \in Procs : h[p].pc # "idle" =>
    /\ h[p].key = <<client_id(h[p]), h[p].current \div window>>
    /\ (h[p].nth = 1 =>
          /\ h[p].request_count = 1
          /\ (Decided(p) => h[p].called /\ h[p].status # 429))

C4_Witness ==
  \E p \in Procs :
    /\ h[p].current \div window = 1
    /\ h[p].nth = 1
    /\ h[p].called
    /\ ratelimit[<<client_id(h[p]), 0>>] > rate_limit

\* C5: every response of a request that went through dispatch carries the
\* X-RateLimit-* headers, the 429 of a rate-limited request included.
C5_HeadersOnEveryResponse ==
  \A p \in Procs : h[p].pc = "done" => h[p].headers.present

C7_EveryRequestLoggedOnce ==
  \A p \in Procs : h[p].pc = "done" =>
    Cardinality({i \in 1..Len(request_logs) : request_logs[i].handler = p}) = 1

----------------------------------------------------------------------------
(* The credential's claim *)
\* C9: an expired token is rejected as expired ("API key expired"), a tampered
\* one as invalid ("Invalid API key"), and a validly signed token that has not
\* expired is accepted, its wallet_address returned unchanged.
C9_CredentialKinds ==
  cred_res # NotVerified =>
    /\ (cred_tok.sig = "valid" /\ cred_tok.exp < now) =>
         (cred_res.status = 401 /\ cred_res.detail = "API key expired")
    /\ cred_tok.sig = "tampered" =>
         (cred_res.status = 401 /\ cred_res.detail = "Invalid API key")
    /\ (cred_tok.sig = "valid" /\ cred_tok.exp > now) =>
         (cred_res.status = 200 /\ cred_res.value = cred_tok.wallet_address)

----------------------------------------------------------------------------
(* The log's claim *)
\* C8: in every state of the store, the states between a handler's LPUSH and
\* its LTRIM included, each log list holds at most 10,000 entries, and they are
\* the most recently appended ones in insertion order.
C8_LogsBounded ==
  /\ Len(request_logs) <= LogKeep + 1
  /\ Len(access_logs) <= LogKeep + 1
  /\ \A i \in 1..Len(access_logs) : access_logs[i].serial = appended + 1 - i

----------------------------------------------------------------------------
(* The access evaluator's claim *)
\* C10: the access levels check_access_level reports are alpha_access =
\* (total_tokens >= 1000), raw_data_access = (staked_amount >= 5000),
\* api_access = (total_tokens >= 10000), governance_access =
\* (total_tokens >= 50000) of the total_tokens and staked_amount it reports;
\* 999 tokens give no alpha_access, 1000 give it.
C10_AccessThresholds ==
  (access_info.returned /\ ~access_info.error) =>
    LET t == access_info.total_tokens
        s == access_info.staked_amount
        l == access_info.access_levels
    IN /\ l.alpha_access <=> t >= 1000
       /\ l.raw_data_access <=> s >= 5000
       /\ l.api_access <=> t >= 10000
       /\ l.governance_access <=> t >= 50000
       /\ t = 999 => ~l.alpha_access
       /\ t = 1000 => l.alpha_access

C10_Witness ==
  /\ access_info.returned
  /\ access_info.total_tokens = 1000
  /\ access_info.access_levels.alpha_access
  /\ ~access_info.access_levels.api_access

\* C11: the total_tokens check_access_level reports is the sum of the amounts
\* of the wallet's token accounts for the mint, whatever the balances and the
\* staked amount.
C11_TotalIsSumOfAccounts ==
  (access_info.returned /\ ~access_info.error) =>
    access_info.total_tokens = SumSeq(chain.token_accounts)

\* C11 as amended: the reported total_tokens is the sum of the token accounts'
\* amounts plus the reported staked_amount, which is the staking account's
\* amount when that account was read and 0 otherwise.
C11_TotalIsBalancePlusStake ==
  (access_info.returned /\ ~access_info.error) =>
    /\ access_info.total_tokens =
         SumSeq(chain.token_accounts) + access_info.staked_amount
    /\ access_info.staked_amount =
         (IF chain.rpc = "staking_fail" \/ chain.staking = NoStake
            THEN 0 ELSE chain.staking)

C11_Witness ==
  /\ access_info.returned
  /\ SumSeq(chain.token_accounts) = 999
  /\ access_info.staked_amount = 1
  /\ access_info.total_tokens = 1000
  /\ access_info.access_levels.alpha_access

\* the amount a staking account contributes: 0 when the account is absent
StakedOf(staking) == IF staking = NoStake THEN 0 ELSE staking

\* C12: the access levels depend on the token balance and the staked amount
\* alone (ledgers with the same balance and the same stake get the same levels),
\* and a ledger with at least the balance and at least the stake gets every tier
\* that was granted: raising either never revokes a tier.
C12_DeterministicMonotonic ==
  (access_info.returned /\ ~access_info.error) =>
    \A accounts \in SeqsUpTo(Balances, MaxAccounts), staking \in Stakes :
      LET other == check_access_level(accounts, staking, chain.rpc)
          sameBalance == SumSeq(accounts) = SumSeq(chain.token_accounts)
          moreBalance == SumSeq(accounts) >= SumSeq(chain.token_accounts)
          sameStake == StakedOf(staking) = StakedOf(chain.staking)
          moreStake == StakedOf(staking) >= StakedOf(chain.staking)
      IN /\ (sameBalance /\ sameStake) =>
              other.access_levels = access_info.access_levels
         /\ ((moreBalance /\ sameStake) \/ (sameBalance /\ moreStake)) =>
              \A tier \in DOMAIN NoLevels :
                access_info.access_levels[tier] => other.access_levels[tier]

C12_Witness ==
  /\ access_info.returned
  /\ access_info.access_levels.alpha_access
  /\ access_info.access_levels.raw_data_access
  /\ ~access_info.access_levels.api_access
  /\ Len(chain.token_accounts) = MaxAccounts

----------------------------------------------------------------------------
(* The data service's claims *)
\* the access check of handler p answered, with a stake below the threshold
LacksRawData(r) ==
  /\ r.access_info.returned
  /\ ~r.access_info.error
  /\ r.access_info.staked_amount < 5000

\* such a handler has returned the authorization error and has done nothing else
C13_Denied ==
  \A p \in DProcs : LacksRawData(d[p]) =>
    /\ d[p].pc = "done"
    /\ d[p].result = "error"
    /\ d[p].error = ErrInsufficient
    /\ d[p].cache_reads = 0
    /\ d[p].fetched = 0
    /\ d[p].cache_writes = 0
    /\ d[p].pushed = 0

\* the step in which a handler learns that its wallet lacks the stake is its
\* last one, and it changes nothing of the store
C13_Frame ==
  \A p \in DProcs : (d[p].pc = "access" /\ LacksRawData(d'[p])) =>
    /\ d'[p].pc = "done"
    /\ UNCHANGED <<cache, access_logs, appended, fetches>>

\* C13: when the wallet's staked amount is below 5000, get_raw_data returns the
\* authorization error without reading the cache, invoking a fetcher, writing
\* the cache or appending to the access log; the store is left as it was.
C13_UnauthorizedTouchesNothing == [](C13_Denied) /\ [][C13_Frame]_vars

C13_Witness ==
  \E p, q \in DProcs :
    /\ d[p].wallet_address = "wallet_poor"
    /\ d[p].access_info.staked_amount = 200
    /\ d[p].error = ErrInsufficient
    /\ d[q].cache_writes = 1
    /\ d[q].data_type = d[p].data_type
    /\ p \in d[q].preceded

\* C14: a GET /api/v1/data/{data_type} whose wallet lacks raw_data_access is
\* answered with status 403 carrying the insufficient-stake error, not with 500
\* or any other status.
C14_InsufficientStakeIs403 ==
  \A p \in DProcs :
    (d[p].pc = "done" /\ d[p].error = ErrInsufficient) => d[p].status = 403

\* C15: every get_raw_data call that returns a payload has appended exactly
\* one access-log entry, whether the payload came from the cache or from a
\* fetch; a call that fetched followed by one that hit the cache leave two.
C15_EveryPayloadLogged ==
  /\ \A p \in DProcs :
       (d[p].pc = "done" /\ d[p].result = "data") => d[p].pushed = 1
  /\ appended >= Cardinality({p \in DProcs : d[p].pc = "done" /\ d[p].result = "data"})

\* two params arguments holding the same key/value pairs
SameMapping(a, b) ==
  /\ a.given = b.given
  /\ {a.items[i] : i \in 1..Len(a.items)} = {b.items[i] : i \in 1..Len(b.items)}

\* call p came after call q had returned a fetched payload, for the same
\* data_type and params, read the cache within cache_ttl of q's write, and no
\* third call wrote that key
Successive(q, p) ==
  /\ q \in d[p].preceded
  /\ d[q].result = "data"
  /\ d[q].fetched = 1
  /\ d[p].cache_reads = 1
  /\ d[p].data_type = d[q].data_type
  /\ SameMapping(d[p].params, d[q].params)
  /\ d[p].t_get < d[q].t_setex + cache_ttl
  /\ \A r \in DProcs \ {p, q} :
       d[r].cache_writes = 0 \/ d[r].cache_key # d[q].cache_key

\* C16: of two successive get_raw_data calls of an authorized wallet with the
\* same data_type and params, the second within the 300 s TTL of the first,
\* the second returns the payload the first returned and invokes no fetcher:
\* the fetcher is invoked exactly once across the two calls.
C16_SecondCallServedFromCache ==
  \A p, q \in DProcs : Successive(q, p) =>
    /\ d[p].pc = "done"
    /\ d[p].result = "data"
    /\ d[p].payload = d[q].payload
    /\ d[p].fetched + d[q].fetched = 1

C16_Witness ==
  \E p, q \in DProcs :
    /\ Successive(q, p)
    /\ d[q].params = ParamsAB
    /\ d[p].params = ParamsBA
    /\ d[q].t_setex = 0
    /\ d[p].t_get = DataTick
    /\ Len(d[p].payload) = 2

\* C18: for an authorized wallet and a data_type outside github, twitter and
\* blockchain, get_raw_data returns the unsupported-data-type error to its
\* caller: it invokes no fetcher, writes no cache entry and appends nothing to
\* the access log, and nothing is ever cached or fetched for such a data_type.
C18_UnsupportedDataType ==
  /\ \A p \in DProcs :
       (/\ d[p].data_type \notin {"none", "github", "twitter", "blockchain"}
        /\ d[p].access_info.access_levels.raw_data_access) =>
         /\ d[p].pc \in {"cache_get", "fetch", "done"}
         /\ d[p].fetched = 0
         /\ d[p].cache_writes = 0
         /\ d[p].pushed = 0
         /\ d[p].pc = "done" =>
              /\ d[p].result = "error"
              /\ d[p].error = ErrUnsupported
              /\ d[p].cache_reads = 1
  /\ \A t \in DataTypes \ {"github", "twitter", "blockchain"} : fetches[t] = 0
  /\ \A k \in CacheKeys :
       k.data_type \notin {"github", "twitter", "blockchain"} => ~cache[k].present

C18_Witness ==
  \E p \in DProcs :
    /\ d[p].data_type = "weather"
    /\ d[p].wallet_address = "wallet_staked"
    /\ d[p].pc = "done"
    /\ d[p].error = ErrUnsupported
    /\ appended = 1

\* C19: when the ledger RPC fails during the access check (the address is
\* invalid, or the token-account query or the staking query raises),
\* check_access_level returns, without raw_data_access granted, and
\* get_raw_data returns an error result having fetched nothing, written no
\* cache entry and appended nothing to the access log.
C19_RpcFailureDenies ==
  \A p \in DProcs :
    d[p].rpc \in {"bad_address", "accounts_fail", "staking_fail"} =>
      /\ d[p].access_info.returned
      /\ ~d[p].access_info.access_levels.raw_data_access
      /\ d[p].pc = "done"
      /\ d[p].result = "error"
      /\ d[p].error \in {ErrKeyError, ErrInsufficient}
      /\ d[p].cache_reads = 0
      /\ d[p].fetched = 0
      /\ d[p].cache_writes = 0
      /\ d[p].pushed = 0

C19_Witness ==
  \E p, q \in DProcs :
    /\ d[p].wallet_address = "wallet_staked"
    /\ d[p].rpc = "staking_fail"
    /\ d[p].error = ErrInsufficient
    /\ d[q].wallet_address = "wallet_staked"
    /\ d[q].rpc = "accounts_fail"
    /\ d[q].error = ErrKeyError

----------------------------------------------------------------------------
(* The cache key's claim *)
\* C17: the cache key does not depend on the order in which the caller
\* supplied the keys of params: for one data_type, two params arguments with
\* the same key/value pairs get equal keys.
C17_KeyIgnoresParamOrder ==
  (cache_keys # <<>> /\ SameMapping(key_args.first, key_args.second)) =>
    cache_keys[1] = cache_keys[2]

C17_Witness ==
  /\ cache_keys # <<>>
  /\ SameMapping(key_args.first, key_args.second)
  /\ key_args.first # key_args.second
  /\ Len(key_args.first.items) = MaxParamKeys
  /\ cache_keys[1] = cache_keys[2]

----------------------------------------------------------------------------
(* The account history's claim *)
\* C20: get_account_history never raises: whenever the address is invalid or
\* one of its RPC calls (account info, signatures, a transaction lookup) or
\* the parsing of a transaction fails, it returns the result with an error
\* description, exists = false and transaction_count = 0.
C20_HistoryNeverRaises ==
  /\ hist.outcome \in {"none", "returned"}
  /\ (~hist.address_valid /\ hist.pc # "pubkey") => hist.failed = "address"
  /\ hist.failed # "none" =>
       /\ hist.pc = "done"
       /\ hist.outcome = "returned"
       /\ hist.result.error # "none"
       /\ hist.result.exists = FALSE
       /\ hist.result.transaction_count = 0

C20_Witness ==
  /\ hist.failed = "transaction"
  /\ hist.account_present
  /\ hist.signatures = MaxSignatures
  /\ Len(hist.transactions) = 1
  /\ hist.result.transaction_count = 0

----------------------------------------------------------------------------
(* The staking record's claim *)
\* C21: staking data of at least 24 bytes is decoded as amount = bytes 0..7,
\* start_time = bytes 8..15 and last_claim = bytes 16..23, each little-endian;
\* for data shorter than 24 bytes no staking record is answered.
C21_StakingDataDecoded ==
  stake.info.returned =>
    IF Len(stake.data) >= 24
      THEN /\ ~stake.info.none
           /\ stake.info.amount = from_bytes(SubSeq(stake.data, 1, 8))
           /\ stake.info.start_time = from_bytes(SubSeq(stake.data, 9, 16))
           /\ stake.info.last_claim = from_bytes(SubSeq(stake.data, 17, 24))
      ELSE stake.info.none

----------------------------------------------------------------------------
(* The webhook's claim *)
\* C22: a POST /api/v1/webhook without the X-Cynix-Event header is answered
\* with status 400, and no webhook handler is invoked for it.
C22_MissingEventIs400 ==
  (/\ hook.pc = "done"
   /\ hook.api_key = "key_good"
   /\ hook.event_type = "none"
   /\ hook.body # "not_json") =>
    /\ hook.status = 400
    /\ hook.invoked = "none"

----------------------------------------------------------------------------
(* The analytics' claim *)
\* C23: for a timeframe other than 24h, 7d and 30d get_analytics_data returns
\* the invalid-timeframe error without reading data points or aggregating;
\* for 24h, 7d and 30d the buckets of the aggregation are 1 hour, 1 day and
\* 7 days wide.
C23_TimeframeAndBuckets ==
  /\ (analytics.timeframe \notin {"none", "24h", "7d", "30d"} /\ analytics.pc # "range") =>
       /\ analytics.pc = "done"
       /\ analytics.result = "Invalid timeframe"
       /\ ~analytics.points_read
       /\ ~analytics.aggregated
  /\ analytics.aggregated =>
       /\ analytics.timeframe = "24h" => analytics.interval = 1
       /\ analytics.timeframe = "7d" => analytics.interval = 24
       /\ analytics.timeframe = "30d" => analytics.interval = 7 * 24
       /\ analytics.timeframe \in {"24h", "7d", "30d"}

C23_Witness ==
  /\ analytics.aggregated
  /\ analytics.timeframe = "7d"
  /\ analytics.interval = 24
  /\ analytics.points = MaxPoints
  /\ analytics.result = "data"

----------------------------------------------------------------------------
(* The agent envelope's claim *)
\* every envelope carries status, agent_type and timestamp, and exactly one
\* of data and error
WellFormed(envelope) ==
  /\ envelope.status \in {"success", "error"}
  /\ envelope.agent_type = agent.agent_type
  /\ envelope.timestamp \in LoopTimes
  /\ (envelope.data = Absent) # (envelope.error = Absent)
  /\ envelope.status = "success" <=> envelope.data # Absent

\* C24: process_data never raises: it returns a success envelope with data
\* when _process_internal returns and an error envelope with error when
\* _process_internal raises any exception; every envelope carries agent_type
\* and timestamp and exactly one of data and error.
C24_AlwaysAnEnvelope ==
  agent.pc = "done" =>
    /\ agent.outcome = "returned"
    /\ WellFormed(agent.envelope)
    /\ agent.internal \in Results <=> agent.envelope.status = "success"

\* C24 as amended: whenever _process_internal returns, or raises an exception
\* that derives from Exception, process_data returns a well-formed envelope,
\* success with the result or error with the message; what derives from
\* BaseException only (a cancellation) is not caught and goes on to the caller.
C24_EnvelopeUnlessCancelled ==
  agent.pc = "done" =>
    IF agent.internal \in BaseExceptions
      THEN agent.outcome = "raised" /\ agent.envelope = NoEnvelope
      ELSE /\ agent.outcome = "returned"
           /\ WellFormed(agent.envelope)
           /\ agent.internal \in Results =>
                agent.envelope.status = "success" /\ agent.envelope.data = agent.internal
           /\ agent.internal \in Exceptions =>
                agent.envelope.status = "error" /\ agent.envelope.error = agent.internal

C24_Witness ==
  /\ agent.pc = "done"
  /\ agent.internal = "TimeoutError"
  /\ agent.envelope.status = "error"
  /\ agent.envelope.agent_type = "InfyAgent"

----------------------------------------------------------------------------
(* The counter keys' expiry *)
\* C25: every rate-window counter key in the store has an expiry: under every
\* interleaving, and also when a handler is cancelled or fails between its
\* increment and its expire call, no counter key remains without a TTL
\* (other than while the handler that created it is about to set it), so
\* every counter is eventually removed.
C25_EveryCounterExpires ==
  \A k \in Keys :
    ratelimit[k] > 0 /\ expireAt[k] = NoTTL =>
      \E p \in Procs : h[p].pc = "expire" /\ h[p].key = k

----------------------------------------------------------------------------
(* The rate-limit headers' values *)
\* C26: on every admitted response X-RateLimit-Limit is the limit,
\* X-RateLimit-Remaining is max(0, limit - count after the increment) and never
\* negative, and X-RateLimit-Reset is (floor(now / window) + 1) * window, which
\* is strictly after the request's time and at most window seconds after it.
C26_HeaderValues ==
  \A p \in Procs :
    h[p].headers.present =>
      LET limit == rate_limit
          left == limit - h[p].request_count
          start == h[p].current - (h[p].current % window)
      IN
      /\ h[p].called
      /\ h[p].headers.limit = limit
      /\ h[p].headers.remaining = (IF left > 0 THEN left ELSE 0)
      /\ h[p].headers.remaining >= 0
      /\ h[p].headers.reset = start + window
      /\ h[p].headers.reset > h[p].current
      /\ h[p].headers.reset - h[p].current <= window

C26_Witness ==
  \E p \in Procs :
    /\ h[p].headers.present
    /\ h[p].status = 200
    /\ h[p].current = TickStep
    /\ h[p].request_count = rate_limit
    /\ h[p].headers.remaining = 0
    /\ h[p].headers.reset = window

----------------------------------------------------------------------------
(* One client's counters and another's *)
\* the counter a request of this client at this instant is counted under
OwnKey(r) ==
  <<IF r.api_key = "none" THEN r.host ELSE r.api_key, r.current \div window>>

C28_Step ==
  /\ \A k \in Keys :
       (ratelimit'[k] # ratelimit[k] \/ expireAt'[k] # expireAt[k]) =>
         \/ now' # now
         \/ \E p \in Procs :
              /\ h'[p] # h[p]
              /\ k = OwnKey(h'[p])
  /\ \A p \in Procs :
       h[p].pc = "idle" /\ h'[p].pc # "idle" =>
         /\ h'[p].request_count = ratelimit[OwnKey(h'[p])] + 1
         /\ ratelimit'[OwnKey(h'[p])] = ratelimit[OwnKey(h'[p])] + 1
         /\ \A k \in Keys \ {OwnKey(h'[p])} : ratelimit'[k] = ratelimit[k]
         /\ h'[p].status = 429 <=> h'[p].request_count > rate_limit

\* C28: a request of client A changes only the counter keyed by (A, current
\* window): the counters of other clients and of other windows stay as they
\* were, and whether a request is admitted depends on its own client's
\* counter alone.
C28_OnlyOwnCounter == [][C28_Step]_vars

C28_Witness ==
  \E p, q \in Procs :
    /\ h[p].api_key = "key_good"
    /\ h[p].status = 429
    /\ h[q].api_key = "key_tampered"
    /\ h[q].request_count = 1
    /\ h[q].called
    /\ ratelimit[<<"key_good", 0>>] = rate_limit + 1
    /\ ratelimit[<<"key_tampered", 0>>] = 1

----------------------------------------------------------------------------
(* The cache and the access check *)
\* C27: get_raw_data never returns a payload to a wallet that lacks
\* raw_data_access at the time of the call, even when an authorized wallet has
\* put the payload of the same (data_type, params) into the cache: the access
\* check always comes before the cache read.
C27_NoPayloadWithoutAccess ==
  \A p \in DProcs :
    /\ (d[p].cache_reads > 0 \/ d[p].result = "data" \/ d[p].payload # NoPayload) =>
         /\ d[p].access_info.returned
         /\ ~d[p].access_info.error
         /\ d[p].access_info.access_levels.raw_data_access
         /\ Chain(d[p].wallet_address).staking >= 5000
    /\ d[p].pc \in {"cache_get", "fetch", "setex", "lpush", "ltrim"} =>
         Chain(d[p].wallet_address).staking >= 5000

C27_Witness ==
  \E p, q \in DProcs :
    /\ d[q].wallet_address = "wallet_staked"
    /\ d[q].result = "data"
    /\ d[q].cache_writes = 1
    /\ q \in d[p].preceded
    /\ d[p].wallet_address = "wallet_poor"
    /\ d[p].data_type = d[q].data_type
    /\ d[p].params = d[q].params
    /\ cache[d[q].cache_key].present
    /\ d[p].pc = "done"
    /\ d[p].error = ErrInsufficient
    /\ d[p].payload = NoPayload

----------------------------------------------------------------------------
(* Concurrent calls for one key *)
\* C29: under concurrent get_raw_data calls by authorized wallets for the same
\* (data_type, params), the fetcher is invoked at most once per TTL period of
\* that key (a call fetches and stores only once the entry stored by an earlier
\* fetch has expired), and calls served within one TTL period return the same
\* payload.
C29_OneFetchPerTtl ==
  \A p, q \in DProcs :
    (/\ p # q
     /\ d[p].data_type = d[q].data_type
     /\ generate_cache_key(d[p].data_type, d[p].params)
          = generate_cache_key(d[q].data_type, d[q].params)
     /\ d[p].t_get <= d[q].t_get) =>
      /\ (d[p].cache_writes = 1 /\ d[q].fetched = 1) =>
           d[q].t_get >= d[p].t_setex + cache_ttl
      /\ (/\ d[p].result = "data"
          /\ d[q].result = "data"
          /\ d[q].t_get < d[p].t_get + cache_ttl) =>
           d[p].payload = d[q].payload

----------------------------------------------------------------------------
(* The cache write and the log entry *)
\* the log holds an entry of an access to this key
Logged(key) ==
  \E i \in 1..Len(access_logs) :
    generate_cache_key(access_logs[i].data_type, access_logs[i].params) = key

\* C30: whenever a payload is in the cache, the access log contains an entry
\* for the fetch that stored it (or the storing call is about to append it): a
\* fresh fetch either both writes the cache and appends its log entry or does
\* neither, also when the log append fails after the cache write and the
\* caller receives an error result.
C30_CachedImpliesLogged ==
  /\ \A p \in DProcs :
       d[p].cache_writes = 1 => (d[p].pc = "lpush" \/ d[p].pushed = 1)
  /\ \A p \in DProcs :
       d[p].pc = "done" => (d[p].cache_writes = d[p].pushed)
  /\ \A key \in CacheKeys :
       cache[key].present =>
         \/ Logged(key)
         \/ \E p \in DProcs : d[p].pc = "lpush" /\ d[p].cache_key = key


====
